---- MODULE Spec2Model ----
(***************************************************************************)
(* Model of src/api.py: the /optimize handler run_lcv_optimization.        *)
(*                                                                         *)
(* Time is counted in ticks since midnight of the scheduling date          *)
(* (TicksPerMin ticks to the minute).  Durations are the spreadsheet's     *)
(* floats, held in hundredths of a minute.  The process-wide generator of  *)
(* Python's random module is one variable, rng, shared by every            *)
(* invocation of the handler; each variate is computed from its state.     *)
(* A run advances by one random draw at a time, the draws being the only   *)
(* places where two invocations running in the server's thread pool touch  *)
(* the same state.                                                         *)
(***************************************************************************)
EXTENDS Integers, Sequences, FiniteSets, TLC

VARIABLES
    df,                          \* the loaded dataset (line 71)
    rng,                         \* state of the random module's generator
    pc,                          \* per run: position in the handler
    requests_to_process_sorted,  \* per run (line 97)
    all_lcvs,                    \* per run (line 100)
    lcv_availability,            \* per run (line 101)
    final_schedule,              \* per run (line 102)
    req_idx,                     \* per run: position of the loop of line 104
    lcv_idx,                     \* per run: position of the loop of line 110
    best,                        \* per run: the four locals of lines 105-108
    results,                     \* per run (lines 132-135)
    asg_idx,                     \* per run: position of the loop of line 137
    stages,                      \* per run: stage times computed so far
    drawn                        \* per run: the last raw variate it obtained

vars == <<df, rng, pc, requests_to_process_sorted, all_lcvs, lcv_availability,
          final_schedule, req_idx, lcv_idx, best, results, asg_idx, stages,
          drawn>>

-----------------------------------------------------------------------------
\* Bounds of the model.

\* at most this many rows pass the filters of lines 82-92
MaxReqs == 2
\* the lcv_id column holds integers 0..MaxLcvId
MaxLcvId == 2
\* resolution of the clock
TicksPerMin == 2
\* the generator starts in one of the states 0..MaxSeed
MaxSeed == 2

-----------------------------------------------------------------------------
\* Values.

Runs == {1, 2}

\* Python's None, for the locals of lines 106-108 and for drawn
None == 0 - 1

LcvIds == 0 .. MaxLcvId

\* datetime.combine(start_date, datetime.min.time()): midnight, tick 0
Baseline == 0

\* datetime.max: later than every time a run can compute
DatetimeMax == 1000000

\* create_date of a row that passed the date filter: a time of that day
CreateDates == {1, 5 * TicksPerMin}

\* duration of a row, in hundredths of a minute: 0.00, 1.50, 5.00 and 7.00
Durations == {0, 150, 500, 700}

Max(a, b) == IF a >= b THEN a ELSE b

\* the rows that pass the filters of lines 82-92, in the order of the file;
\* request_id is unique after drop_duplicates: the row's position
RowSeqs ==
    UNION { { [i \in 1..n |-> [request_id |-> i,
                               create_date |-> f[i][1],
                               duration |-> f[i][2]]] :
              f \in [1..n -> CreateDates \X Durations] } : n \in 0..MaxReqs }

\* a dataset: the distinct values of its lcv_id column and its filtered rows.
\* Every row has an lcv_id (dropna, line 48), so a dataset with rows has one.
Datasets ==
    { [lcv_ids |-> ids, rows |-> rows] :
        ids \in SUBSET LcvIds, rows \in RowSeqs } \
    { [lcv_ids |-> {}, rows |-> rows] : rows \in RowSeqs \ {<<>>} }

-----------------------------------------------------------------------------
\* The random module: one generator for the whole process, seeded when the
\* module is imported (line 2), advanced by every draw of every invocation.

RngModulus == 64
RngMul == 21
RngInc == 61

\* the generator's next state, which is also the raw variate it returns
RngNext(s) == (RngMul * s + RngInc) % RngModulus

\* the span of random.uniform(0, 5), in minutes
JitterMinutes == 5

UniformJitterOfTen(raw) ==
    (2 * 10 * TicksPerMin * raw + RngModulus) \div (2 * RngModulus)

\* timedelta(minutes=random.uniform(0, 5)) in ticks: 0 + 5 * random() with
\* random() = raw / RngModulus in [0, 1), rounded to the nearest tick as
\* timedelta rounds to its resolution (so the top of the range is reached)
UniformJitter(raw) ==
    (2 * JitterMinutes * TicksPerMin * raw + RngModulus) \div (2 * RngModulus)

\* random.randint(a, b): a value of a..b, both ends included
RandInt(a, b, raw) == a + (raw % (b - a + 1))

-----------------------------------------------------------------------------
\* The pure steps of the assignment loop (lines 104-129).

\* sort_values(by='create_date') (line 97): the rows in ascending create_date.
\* The default kind, quicksort, is not a stable sort: rows with equal
\* create_date come out in an order the library does not promise.
IsAscending(rows) ==
    \A i \in 1..Len(rows) - 1 : rows[i].create_date <= rows[i + 1].create_date

SortValues(rows) ==
    { [i \in 1..Len(rows) |-> rows[p[i]]] :
        p \in { q \in [1..Len(rows) -> 1..Len(rows)] :
                  /\ \A i, j \in 1..Len(rows) : i # j => q[i] # q[j]
                  /\ IsAscending([i \in 1..Len(rows) |-> rows[q[i]]]) } }

NoRowsIgnored(rows) == FALSE

\* the tests of lines 83, 87 and 94: no row is left to process
NoRows(rows) == rows = <<>>

\* sorted(df['lcv_id'].unique().tolist()) (line 100)
RECURSIVE SortedList(_)
SortedList(ids) ==
    IF ids = {} THEN <<>>
    ELSE LET lo == CHOOSE x \in ids : \A y \in ids : x <= y
         IN  <<lo>> \o SortedList(ids \ {lo})

\* the tracker of line 101: every vehicle free from midnight
InitialAvailability(lcvs) ==
    [v \in { lcvs[i] : i \in 1..Len(lcvs) } |-> Baseline]

\* the locals of lines 105-108 at the top of the loop body
NoBest ==
    [earliest_stochastic_completion_time |-> DatetimeMax,
     best_lcv |-> None, best_start_time |-> None,
     best_completion_time |-> None]

CandidateStartNoCreate(availability, create_date) == availability

CandidateStartNoWait(availability, create_date) == create_date

\* line 111
CandidateStart(availability, create_date) == Max(availability, create_date)

\* int(req['duration']) (lines 112, 141): truncation to whole minutes
RouteDuration(duration) == duration \div 100

\* line 113
CandidateCompletion(start_time, duration) ==
    start_time + RouteDuration(duration) * TicksPerMin

\* line 114
StochasticCompletion(completion_time, raw) ==
    completion_time + UniformJitter(raw)

IsEarlierOrEqual(stochastic, earliest) == stochastic <= earliest

\* line 116
IsEarlier(stochastic, earliest) == stochastic < earliest

NewBestJittered(stochastic, lcv_id, start_time, completion_time) ==
    [earliest_stochastic_completion_time |-> stochastic,
     best_lcv |-> lcv_id, best_start_time |-> start_time,
     best_completion_time |-> stochastic]

\* lines 117-120
NewBest(stochastic, lcv_id, start_time, completion_time) ==
    [earliest_stochastic_completion_time |-> stochastic,
     best_lcv |-> lcv_id, best_start_time |-> start_time,
     best_completion_time |-> completion_time]

\* the test of line 122: Python truth of best_lcv (None and 0 are false)
Truthy(lcv) == lcv # None /\ lcv # 0

\* lines 123-128
Assignment(req, b) ==
    [request |-> req, assigned_lcv |-> b.best_lcv,
     start_time |-> b.best_start_time,
     completion_time |-> b.best_completion_time]

UpdateAvailabilityForgotten(availability, lcv, completion_time) ==
    availability

UpdateAvailabilityOfAll(availability, lcv, completion_time) ==
    [v \in DOMAIN availability |-> completion_time]

UpdateAvailabilityOfFirst(availability, lcv, completion_time) ==
    [availability EXCEPT
        ![CHOOSE v \in DOMAIN availability :
             \A w \in DOMAIN availability : v <= w] = completion_time]

\* line 129
UpdateAvailability(availability, lcv, completion_time) ==
    [availability EXCEPT ![lcv] = completion_time]

-----------------------------------------------------------------------------
\* The pure steps of the simulation and formatting loop (lines 137-173).

TicksPerDay == 24 * 60 * TicksPerMin

\* strftime('%Y-%m-%d %H:%M:%S'): the fields of the printed stamp; the date is
\* held as the number of days after the scheduling date
Strftime(t) ==
    [day    |-> t \div TicksPerDay,
     hour   |-> (t % TicksPerDay) \div (60 * TicksPerMin),
     minute |-> (t \div TicksPerMin) % 60,
     second |-> (t % TicksPerMin) * (60 \div TicksPerMin)]

\* f"{req['duration']:.2f}" (line 149): whole part and two decimals
Fixed2(duration) == <<duration \div 100, duration % 100>>

\* lines 144-152
ScheduleEntry(assignment) ==
    [request_id |-> assignment.request.request_id,
     assigned_lcv_id |-> assignment.assigned_lcv,
     historical_duration |-> Fixed2(assignment.request.duration),
     start_time |-> Strftime(assignment.start_time),
     completion_time |-> Strftime(assignment.completion_time)]

\* the random offset that follows the n stage times computed so far:
\* lines 156, 157, 159 and 160
StageOffset(n, raw) ==
    IF n \in {1, 4} THEN RandInt(4, 6, raw) ELSE RandInt(28, 32, raw)

EntersDBSUntruncated(stage3_time, duration) ==
    stage3_time + (duration * TicksPerMin) \div 100

\* line 158
EntersDBS(stage3_time, duration) ==
    stage3_time + RouteDuration(duration) * TicksPerMin

\* lines 155-160: the stage times after one more draw.  Stage 1 is the start
\* time; stage 4 follows stage 3 without a draw.
MoreStages(stgs, assignment, raw) ==
    LET have == IF stgs = <<>> THEN <<assignment.start_time>> ELSE stgs
        next == have[Len(have)] + StageOffset(Len(have), raw) * TicksPerMin
        with == Append(have, next)
    IN  IF Len(with) = 3
        THEN Append(with, EntersDBS(next, assignment.request.duration))
        ELSE with

TimelineEntryIdsSwapped(assignment, stgs) ==
    [request_id |-> assignment.assigned_lcv,
     lcv_id |-> assignment.request.request_id,
     stages |-> [k \in 1..Len(stgs) |-> Strftime(stgs[k])]]

\* lines 162-173
TimelineEntry(assignment, stgs) ==
    [request_id |-> assignment.request.request_id,
     lcv_id |-> assignment.assigned_lcv,
     stages |-> [k \in 1..Len(stgs) |-> Strftime(stgs[k])]]

\* lines 132-135
EmptyResults == [optimal_schedule |-> <<>>, simulation_timeline |-> <<>>]

-----------------------------------------------------------------------------
\* Initial states.

\* the locals of a run that has not reached the code that sets them
Unset ==
    [r \in Runs |-> <<>>]

InitRun(started) ==
    /\ pc = [r \in Runs |-> IF r \in started THEN "start" ELSE "idle"]
    /\ requests_to_process_sorted = Unset
    /\ all_lcvs = Unset
    /\ lcv_availability = Unset
    /\ final_schedule = Unset
    /\ req_idx = [r \in Runs |-> 0]
    /\ lcv_idx = [r \in Runs |-> 0]
    /\ best = [r \in Runs |-> NoBest]
    /\ results = [r \in Runs |-> EmptyResults]
    /\ asg_idx = [r \in Runs |-> 0]
    /\ stages = Unset
    /\ drawn = [r \in Runs |-> None]

\* one request to the endpoint
Init ==
    /\ df \in Datasets
    /\ rng \in 0 .. MaxSeed
    /\ InitRun({1})

-----------------------------------------------------------------------------
\* The handler, one step per random draw.

\* lines 71-102: load, filter, sort, build the tracker.  A filter that leaves
\* no row ends the request with HTTP 404 (lines 83-95).  A file that cannot
\* be read and a date that cannot be parsed (lines 70-79) end the request
\* before any of this state exists and are left out.
Prepare(r) ==
    /\ pc[r] = "start"
    /\ IF NoRows(df.rows)
       THEN /\ pc' = [pc EXCEPT ![r] = "http_404"]
            /\ UNCHANGED <<requests_to_process_sorted, all_lcvs,
                           lcv_availability, req_idx, lcv_idx>>
       ELSE /\ \E sorted \in SortValues(df.rows) :
                 requests_to_process_sorted' =
                     [requests_to_process_sorted EXCEPT ![r] = sorted]
            /\ all_lcvs' = [all_lcvs EXCEPT ![r] = SortedList(df.lcv_ids)]
            /\ lcv_availability' =
                   [lcv_availability EXCEPT
                       ![r] = InitialAvailability(SortedList(df.lcv_ids))]
            /\ req_idx' = [req_idx EXCEPT ![r] = 1]
            /\ lcv_idx' = [lcv_idx EXCEPT ![r] = 1]
            /\ pc' = [pc EXCEPT ![r] = "assign"]
    /\ UNCHANGED <<df, rng, final_schedule, best, results, asg_idx, stages,
                   drawn>>

\* lines 110-120: one pass of the inner loop, with its draw
ScoreVehicle(r) ==
    /\ pc[r] = "assign"
    /\ lcv_idx[r] <= Len(all_lcvs[r])
    /\ LET req == requests_to_process_sorted[r][req_idx[r]]
           lcv_id == all_lcvs[r][lcv_idx[r]]
           raw == RngNext(rng)
           start == CandidateStart(lcv_availability[r][lcv_id], req.create_date)
           completion == CandidateCompletion(start, req.duration)
           stochastic == StochasticCompletion(completion, raw)
       IN  /\ rng' = raw
           /\ drawn' = [drawn EXCEPT ![r] = raw]
           /\ best' = [best EXCEPT ![r] =
                  IF IsEarlier(stochastic,
                               best[r].earliest_stochastic_completion_time)
                  THEN NewBest(stochastic, lcv_id, start, completion)
                  ELSE best[r]]
    /\ lcv_idx' = [lcv_idx EXCEPT ![r] = lcv_idx[r] + 1]
    /\ UNCHANGED <<df, pc, requests_to_process_sorted, all_lcvs,
                   lcv_availability, final_schedule, req_idx, results, asg_idx,
                   stages>>

\* lines 122-129 and the loop heads of lines 104-108 and 137: record the
\* choice, move to the next request or to the simulation
RecordAssignment(r) ==
    /\ pc[r] = "assign"
    /\ lcv_idx[r] > Len(all_lcvs[r])
    /\ LET req == requests_to_process_sorted[r][req_idx[r]]
           schedule == IF Truthy(best[r].best_lcv)
                       THEN Append(final_schedule[r], Assignment(req, best[r]))
                       ELSE final_schedule[r]
           last == req_idx[r] = Len(requests_to_process_sorted[r])
       IN  /\ final_schedule' = [final_schedule EXCEPT ![r] = schedule]
           /\ lcv_availability' =
                  IF Truthy(best[r].best_lcv)
                  THEN [lcv_availability EXCEPT ![r] =
                          UpdateAvailability(lcv_availability[r],
                                             best[r].best_lcv,
                                             best[r].best_completion_time)]
                  ELSE lcv_availability
           /\ req_idx' = [req_idx EXCEPT ![r] = req_idx[r] + 1]
           /\ asg_idx' = [asg_idx EXCEPT ![r] = IF last THEN 1 ELSE 0]
           /\ pc' = [pc EXCEPT ![r] =
                  IF ~last THEN "assign"
                  ELSE IF schedule = <<>> THEN "done" ELSE "simulate"]
    /\ lcv_idx' = [lcv_idx EXCEPT ![r] = 1]
    /\ best' = [best EXCEPT ![r] = NoBest]
    /\ UNCHANGED <<df, rng, requests_to_process_sorted, all_lcvs, results,
                   stages, drawn>>

\* lines 137-173: one draw of the simulation loop.  The first draw of an
\* assignment follows the schedule entry (lines 144-152), the last is
\* followed by the timeline entry (lines 162-173) and, after the last
\* assignment, by the return of line 175.
SimulateStage(r) ==
    /\ pc[r] = "simulate"
    /\ LET assignment == final_schedule[r][asg_idx[r]]
           raw == RngNext(rng)
           stgs == MoreStages(stages[r], assignment, raw)
           full == Len(stgs) = 6
           schedule == IF stages[r] = <<>>
                       THEN Append(results[r].optimal_schedule,
                                   ScheduleEntry(assignment))
                       ELSE results[r].optimal_schedule
           timeline == IF full
                       THEN Append(results[r].simulation_timeline,
                                   TimelineEntry(assignment, stgs))
                       ELSE results[r].simulation_timeline
       IN  /\ rng' = raw
           /\ drawn' = [drawn EXCEPT ![r] = raw]
           /\ results' = [results EXCEPT ![r] =
                  [optimal_schedule |-> schedule,
                   simulation_timeline |-> timeline]]
           /\ stages' = [stages EXCEPT ![r] = IF full THEN <<>> ELSE stgs]
           /\ asg_idx' = [asg_idx EXCEPT ![r] =
                  IF full THEN asg_idx[r] + 1 ELSE asg_idx[r]]
           /\ pc' = [pc EXCEPT ![r] =
                  IF full /\ asg_idx[r] = Len(final_schedule[r])
                  THEN "done" ELSE "simulate"]
    /\ UNCHANGED <<df, requests_to_process_sorted, all_lcvs, lcv_availability,
                   final_schedule, req_idx, lcv_idx, best>>

Next ==
    \E r \in Runs :
        \/ Prepare(r)
        \/ ScoreVehicle(r)
        \/ RecordAssignment(r)
        \/ SimulateStage(r)

Spec == Init /\ [][Next]_vars

\* two requests to the endpoint, served by two threads of the pool, on a
\* dataset with one selected row
InitConc ==
    /\ df \in { d \in Datasets : Len(d.rows) = 1 }
    /\ rng \in 0 .. MaxSeed
    /\ InitRun(Runs)

SpecConc == InitConc /\ [][Next]_vars

-----------------------------------------------------------------------------
\* Properties.

\* the runs that have built their tracker and schedule
Started == { r \in Runs : pc[r] \in {"assign", "simulate", "done"} }

\* the truncated duration of an assignment's request, in ticks
WholeMinutes(a) == (a.request.duration \div 100) * TicksPerMin

\* the positions in a schedule of the assignments routed to a vehicle
RoutedTo(schedule, v) ==
    { i \in 1..Len(schedule) : schedule[i].assigned_lcv = v }

\* the last element of a non-empty set of positions
Latest(positions) == CHOOSE i \in positions : \A j \in positions : j <= i

\* C1: every recorded assignment ends exactly the request's whole-minute
\* duration after it starts, and the availability stored for its vehicle
\* when it is the vehicle's latest assignment is that same jitter-free
\* start plus duration.
C1_NoJitterRecorded ==
    \A r \in Started :
        \A i \in 1..Len(final_schedule[r]) :
            LET a == final_schedule[r][i]
            IN  /\ a.completion_time - a.start_time = WholeMinutes(a)
                /\ i = Latest(RoutedTo(final_schedule[r], a.assigned_lcv))
                      => lcv_availability[r][a.assigned_lcv]
                            = a.start_time + WholeMinutes(a)

\* an assignment of a request lasting 1.50 minutes was recorded for the only
\* vehicle of the fleet, chosen with a jitter that was not zero
C1_Witness ==
    /\ pc[1] = "assign"
    /\ Len(all_lcvs[1]) = 1
    /\ Len(final_schedule[1]) = 1
    /\ final_schedule[1][1].request.duration = 150
    /\ drawn[1] # None
    /\ UniformJitter(drawn[1]) > 0

\* C2: each assignment starts at the later of its request's creation time
\* and the availability its vehicle had just before the request was recorded.
C2_StartIsMaxOfCreationAndPrior ==
    [][\A r \in Started :
          Len(final_schedule'[r]) = Len(final_schedule[r]) + 1
          => LET a == final_schedule'[r][Len(final_schedule'[r])]
                 prior == lcv_availability[r][a.assigned_lcv]
             IN  /\ a.start_time >= a.request.create_date
                 /\ a.start_time >= prior
                 /\ a.start_time \in {a.request.create_date, prior}]_vars

\* two assignments to one vehicle: the second waited for the vehicle and
\* started after its creation time, the first started at its creation time
C2_Witness ==
    /\ Len(final_schedule[1]) = 2
    /\ final_schedule[1][1].assigned_lcv = final_schedule[1][2].assigned_lcv
    /\ final_schedule[1][1].start_time
          = final_schedule[1][1].request.create_date
    /\ final_schedule[1][2].start_time
          > final_schedule[1][2].request.create_date

\* C3: the tracker is built with every vehicle at midnight of the scheduling
\* date, and no step of a run lowers a vehicle's availability.
C3_AvailabilityNeverDecreases ==
    [][\A r \in Runs :
          /\ pc[r] = "start" /\ pc'[r] = "assign"
                => \A v \in df.lcv_ids :
                      Strftime(lcv_availability'[r][v])
                         = [day |-> 0, hour |-> 0, minute |-> 0, second |-> 0]
          /\ r \in Started
                => \A v \in DOMAIN lcv_availability[r] :
                      lcv_availability'[r][v] >= lcv_availability[r][v]]_vars

\* a vehicle's availability was raised twice: it is past the end of the
\* first of two assignments routed to it
C3_Witness ==
    \E v \in DOMAIN lcv_availability[1] :
        /\ Cardinality(RoutedTo(final_schedule[1], v)) = 2
        /\ lcv_availability[1][v] > final_schedule[1][1].completion_time
        /\ final_schedule[1][1].completion_time > 0

\* C4: after any number of processed requests, a vehicle's availability is
\* the completion time of the latest assignment routed to it, and midnight
\* if none was.
C4_AvailabilityIsLatestCompletion ==
    \A r \in Started :
        \A v \in DOMAIN lcv_availability[r] :
            LET routed == RoutedTo(final_schedule[r], v)
            IN  lcv_availability[r][v] =
                   IF routed = {} THEN 0
                   ELSE final_schedule[r][Latest(routed)].completion_time

\* after two requests in a fleet of three, one vehicle has an assignment
\* that ended after midnight and another has none
C4_Witness ==
    /\ pc[1] = "simulate"
    /\ Len(all_lcvs[1]) = 3
    /\ Len(final_schedule[1]) = 2
    /\ \E v, w \in DOMAIN lcv_availability[1] :
          /\ RoutedTo(final_schedule[1], v) = {}
          /\ w # v
          /\ RoutedTo(final_schedule[1], w) # {}
          /\ lcv_availability[1][w] > 0

\* C5: with a fleet that is not empty, every processed request has exactly
\* one assignment, in processing order, whatever the vehicle identifiers.
C5_OneAssignmentPerRequest ==
    \A r \in Started :
        all_lcvs[r] # <<>>
        => LET processed == IF pc[r] = "assign" THEN req_idx[r] - 1
                            ELSE Len(requests_to_process_sorted[r])
           IN  /\ Len(final_schedule[r]) = processed
               /\ \A i \in 1..Len(final_schedule[r]) :
                     final_schedule[r][i].request
                        = requests_to_process_sorted[r][i]

\* the time a printed stamp denotes, in ticks
StampTicks(st) ==
    ((st.day * 24 + st.hour) * 60 + st.minute) * TicksPerMin
       + st.second \div (60 \div TicksPerMin)

\* whole minutes from one printed stamp to a later one; -1 if the second is
\* earlier or the distance is not a whole number of minutes
MinutesBetween(st1, st2) ==
    LET d == StampTicks(st2) - StampTicks(st1)
    IN  IF d >= 0 /\ d % TicksPerMin = 0 THEN d \div TicksPerMin ELSE 0 - 1

\* C6: in every timeline entry the six stamps do not decrease, stage 1 is
\* the assignment's start time, and the gaps are 4..6, 28..32, the
\* request's duration in whole minutes, 4..6 and 28..32 minutes.
C6_StageGaps ==
    \A r \in Runs :
        \A i \in 1..Len(results[r].simulation_timeline) :
            LET e == results[r].simulation_timeline[i]
                a == final_schedule[r][i]
                gap(k) == MinutesBetween(e.stages[k], e.stages[k + 1])
            IN  /\ Len(e.stages) = 6
                /\ StampTicks(e.stages[1]) = a.start_time
                /\ gap(1) \in 4..6
                /\ gap(2) \in 28..32
                /\ gap(3) = df.rows[e.request_id].duration \div 100
                /\ gap(4) \in 4..6
                /\ gap(5) \in 28..32

\* a timeline entry of a request lasting 1.50 minutes that started after
\* midnight, whose loading took the longest time the range allows and whose
\* two waiting gaps differ
C6_Witness ==
    \E i \in 1..Len(results[1].simulation_timeline) :
        LET e == results[1].simulation_timeline[i]
        IN  /\ df.rows[e.request_id].duration = 150
            /\ StampTicks(e.stages[1]) > 0
            /\ MinutesBetween(e.stages[2], e.stages[3]) = 32
            /\ MinutesBetween(e.stages[1], e.stages[2])
                  # MinutesBetween(e.stages[4], e.stages[5])

\* C7: requests are processed in ascending creation time, and requests
\* created at the same time in the order of the input.
C7_StableAscendingOrder ==
    \A r \in Started :
        \A i, j \in 1..Len(requests_to_process_sorted[r]) :
            i < j
            => LET x == requests_to_process_sorted[r][i]
                   y == requests_to_process_sorted[r][j]
               IN  \/ x.create_date < y.create_date
                   \/ /\ x.create_date = y.create_date
                      /\ x.request_id < y.request_id

\* what C8 says of a run of the handler on a dataset without vehicles, but
\* for how the run ends
NothingScheduled(r) ==
    /\ best[r].best_lcv = None
    /\ final_schedule[r] = <<>>
    /\ results[r].optimal_schedule = <<>>
    /\ results[r].simulation_timeline = <<>>
    /\ DOMAIN lcv_availability[r] = {}

C9_DrawsAreIsolated ==
    [][\A r \in Runs :
          drawn[r] # None /\ drawn'[r] # drawn[r]
          => drawn'[r] = RngNext(drawn[r])]_vars

\* the position at which a run processes the request with an identifier
PositionOf(r, id) ==
    CHOOSE k \in 1..Len(requests_to_process_sorted[r]) :
        requests_to_process_sorted[r][k].request_id = id

\* C11: the two output arrays are in processing order and, when the run
\* returns, equally long; the i-th timeline entry has the request id and the
\* vehicle id of the i-th schedule entry, and its first stamp is that
\* entry's start time.
C11_ArraysAgree ==
    \A r \in Started :
        LET schedule == results[r].optimal_schedule
            timeline == results[r].simulation_timeline
        IN  /\ pc[r] = "done" => Len(timeline) = Len(schedule)
            /\ Len(timeline) <= Len(schedule)
            /\ \A i \in 1..Len(timeline) :
                  /\ timeline[i].request_id = schedule[i].request_id
                  /\ timeline[i].lcv_id = schedule[i].assigned_lcv_id
                  /\ timeline[i].stages[1] = schedule[i].start_time
            /\ \A i, j \in 1..Len(schedule) :
                  i < j => PositionOf(r, schedule[i].request_id)
                             < PositionOf(r, schedule[j].request_id)

\* a run returned two entries for two vehicles, the request given second
\* processed first
C11_Witness ==
    /\ pc[1] = "done"
    /\ Len(results[1].simulation_timeline) = 2
    /\ results[1].optimal_schedule[1].request_id = 2
    /\ results[1].simulation_timeline[1].lcv_id
          # results[1].simulation_timeline[2].lcv_id

\* the generator state before the one given (the generator is a bijection)
RngPrev(s) == CHOOSE x \in 0 .. RngModulus - 1 : RngNext(x) = s

RECURSIVE RngBack(_, _)
RngBack(s, n) == IF n = 0 THEN s ELSE RngBack(RngPrev(s), n - 1)

\* the vehicles a run has scored for the request it is processing
Scored(r) == IF pc[r] = "assign" THEN 1 .. lcv_idx[r] - 1 ELSE {}

\* the completion time of the current request on the i-th vehicle, without
\* jitter
Completion(r, i) ==
    LET req == requests_to_process_sorted[r][req_idx[r]]
        free == lcv_availability[r][all_lcvs[r][i]]
    IN  (IF free >= req.create_date THEN free ELSE req.create_date)
           + (req.duration \div 100) * TicksPerMin

\* the jitter a run that draws alone drew for the i-th vehicle
Jitter(r, i) == UniformJitter(RngBack(drawn[r], lcv_idx[r] - 1 - i))

\* C12: among the vehicles scored so far, in ascending identifier order, the
\* vehicle held as best is the first of those whose completion plus jitter
\* is smallest.
C12_FirstSmallestScoreSelected ==
    \A r \in Started :
        /\ \A i \in 1..Len(all_lcvs[r]) - 1 :
              all_lcvs[r][i] < all_lcvs[r][i + 1]
        /\ IF Scored(r) = {}
           THEN best[r].best_lcv = None
           ELSE \E m \in Scored(r) :
                  /\ best[r].best_lcv = all_lcvs[r][m]
                  /\ best[r].best_completion_time = Completion(r, m)
                  /\ \A i \in Scored(r) :
                        /\ Completion(r, m) + Jitter(r, m)
                              <= Completion(r, i) + Jitter(r, i)
                        /\ i < m => Completion(r, m) + Jitter(r, m)
                                       < Completion(r, i) + Jitter(r, i)

\* a whole fleet is scored, a later vehicle has exactly the smallest score
\* too, with another completion time, and the earlier one is held as best
C12_Witness ==
    /\ pc[1] = "assign"
    /\ lcv_idx[1] > Len(all_lcvs[1])
    /\ \E m, i \in Scored(1) :
          /\ m < i
          /\ best[1].best_lcv = all_lcvs[1][m]
          /\ Completion(1, m) # Completion(1, i)
          /\ Completion(1, m) + Jitter(1, m)
                = Completion(1, i) + Jitter(1, i)

\* C13: of two assignments routed to one vehicle, the later one starts no
\* earlier than the earlier one ends; in a fleet of one vehicle each
\* assignment starts at the later of its creation time and the end of the
\* assignment before it.
C13_NoOverlapOnAVehicle ==
    \A r \in Started :
        LET schedule == final_schedule[r]
        IN  /\ \A i, j \in 1..Len(schedule) :
                  i < j /\ schedule[i].assigned_lcv = schedule[j].assigned_lcv
                  => schedule[j].start_time >= schedule[i].completion_time
            /\ Len(all_lcvs[r]) = 1
                  => \A j \in 2..Len(schedule) :
                        LET before == schedule[j - 1].completion_time
                            created == schedule[j].request.create_date
                        IN  schedule[j].start_time =
                               IF before >= created THEN before ELSE created

\* one vehicle, two requests created together, each lasting 5 minutes: the
\* second starts when the first ends
C13_Witness ==
    /\ Len(all_lcvs[1]) = 1
    /\ Len(final_schedule[1]) = 2
    /\ final_schedule[1][1].request.create_date
          = final_schedule[1][2].request.create_date
    /\ final_schedule[1][1].request.duration = 500
    /\ final_schedule[1][2].request.duration = 500
    /\ final_schedule[1][1].start_time
          = final_schedule[1][1].request.create_date
    /\ final_schedule[1][2].start_time
          = final_schedule[1][1].start_time + 5 * TicksPerMin
    /\ final_schedule[1][2].completion_time
          = final_schedule[1][1].start_time + 10 * TicksPerMin

\* C14: a step of a run leaves every recorded assignment as it is and
\* changes the availability of no vehicle but the one of the assignment it
\* records.
C14_OnlySelectedVehicleChanges ==
    [][\A r \in Started :
          LET old == final_schedule[r]
              new == final_schedule'[r]
              grown == Len(new) = Len(old) + 1
          IN  /\ Len(new) \in {Len(old), Len(old) + 1}
              /\ \A i \in 1..Len(old) : new[i] = old[i]
              /\ \A v \in DOMAIN lcv_availability[r] :
                    lcv_availability'[r][v] # lcv_availability[r][v]
                    => grown /\ new[Len(new)].assigned_lcv = v]_vars

\* two requests went to two vehicles: the first vehicle's availability is
\* still the end of the first assignment, which is after midnight
C14_Witness ==
    /\ Len(final_schedule[1]) = 2
    /\ final_schedule[1][1].assigned_lcv # final_schedule[1][2].assigned_lcv
    /\ final_schedule[1][1].completion_time > 0
    /\ lcv_availability[1][final_schedule[1][1].assigned_lcv]
          = final_schedule[1][1].completion_time
    /\ lcv_availability[1][final_schedule[1][2].assigned_lcv]
          = final_schedule[1][2].completion_time

\* the runs that have scored the whole fleet for the current request
Selecting(r) == pc[r] = "assign" /\ lcv_idx[r] > Len(all_lcvs[r])

\* how much later than the earliest completion time over the fleet, without
\* jitter, the vehicle held as best completes, in ticks
Lateness(r) ==
    best[r].best_completion_time
       - (CHOOSE c \in { Completion(r, i) : i \in Scored(r) } :
             \A i \in Scored(r) : c <= Completion(r, i))

\* C15 as stated: the selected vehicle completes, without jitter, less than
\* 5 minutes after the earliest completion over the fleet.
C15_LessThanFiveMinutesLater ==
    \A r \in Started :
        Selecting(r) => Lateness(r) >= 0 /\ Lateness(r) < 5 * TicksPerMin

\* C15 amended: the selected vehicle completes, without jitter, at most
\* 5 minutes after the earliest completion over the fleet.
C15_AtMostFiveMinutesLater ==
    \A r \in Started :
        Selecting(r) => Lateness(r) >= 0 /\ Lateness(r) <= 5 * TicksPerMin

\* jitter decided twice: the first request went to a vehicle that is not
\* the first of the fleet, all vehicles having identical completion times,
\* and for the next request that vehicle is selected again although another
\* one would complete earlier
C15_Witness ==
    /\ Selecting(1)
    /\ Len(final_schedule[1]) = 1
    /\ final_schedule[1][1].assigned_lcv # all_lcvs[1][1]
    /\ best[1].best_lcv = final_schedule[1][1].assigned_lcv
    /\ Lateness(1) > 0

=============================================================================
